---- MODULE Spec2Model ----
(***************************************************************************)
(* Model of src/DataVisualisationSh.py: the clean_data normaliser and the  *)
(* time_series_plot / ratio_plot view builders of the water quality        *)
(* visualiser.                                                             *)
(*                                                                         *)
(* A table cell is a number (an exact rational n/d), a text (a sequence of *)
(* one-character strings) or the missing marker NaN.  Column labels are    *)
(* texts.  A frame is the parameter column, the date labels and the value  *)
(* grid (rows of cells), in data-frame order.                              *)
(*                                                                         *)
(* The pandas operations are modelled as pandas 2.x performs them:         *)
(*  - selecting columns by a list of labels returns, for every requested   *)
(*    label, every column carrying that label;                             *)
(*  - assigning a series to a label sets every column carrying the label,  *)
(*    or appends a column when none does;                                  *)
(*  - a mean skips NaN, is NaN over nothing, and raises TypeError when a   *)
(*    text takes part;                                                     *)
(*  - assigning a label-indexed series through .loc raises ValueError when *)
(*    the labels are not unique.                                           *)
(* Date labels are restricted to digits, "/" and "." and never equal       *)
(* "Parameter"; no label has a first field above 12 with a second field    *)
(* that is a month, where to_datetime differs between pandas releases.     *)
(***************************************************************************)
EXTENDS Integers, Sequences, FiniteSets, TLC

VARIABLES
    raw,          \* the uploaded sheet: df of line 167
    pc,           \* "loaded", "cleaned", "again", "ts" or "ratio"
    cleaned,      \* the outcome of clean_data(df), line 172
    again,        \* the outcome of clean_data on the cleaned table
    selected,     \* the parameters chosen for the time series, line 191
    ts,           \* the records time_series_plot hands to px.line
    numerator,    \* the parameters chosen for the ratio, lines 198-199
    denominator,
    ratio         \* the outcome of ratio_plot: the x and y given to px.line

vars == <<raw, pc, cleaned, again, selected, ts, numerator, denominator, ratio>>

---------------------------------------------------------------------------
(* Bounds of the checked input tables.                                     *)

MaxRows == 3

MaxCols == 4

MaxCells == 8

MaxViewRows == 2

MaxViewCols == 2

---------------------------------------------------------------------------
(* Cells.                                                                  *)

Num(n, d) == [k |-> "num", n |-> n, d |-> d, s |-> <<>>]

Str(s) == [k |-> "str", n |-> 0, d |-> 1, s |-> s]

NaN == [k |-> "nan", n |-> 0, d |-> 1, s |-> <<>>]

TypeErr == [k |-> "err", n |-> 0, d |-> 1, s |-> <<>>]

Zero == Num(0, 1)

IsNum(x) == x.k = "num"

IsStr(x) == x.k = "str"

IsNaN(x) == x.k = "nan"

---------------------------------------------------------------------------
(* Exact arithmetic on numbers.                                            *)

Abs(a) == IF a < 0 THEN -a ELSE a

RECURSIVE GCD(_, _)
GCD(a, b) == IF b = 0 THEN a ELSE GCD(b, a % b)

Norm(n, d) ==
    LET g == GCD(Abs(n), d)
    IN  Num(n \div g, d \div g)

RAdd(a, b) == Norm(a.n * b.d + b.n * a.d, a.d * b.d)

RECURSIVE RSum(_)
RSum(xs) == IF xs = <<>> THEN Zero ELSE RAdd(Head(xs), RSum(Tail(xs)))

(* DataFrame.mean over one row or one column, skipna=True. *)
Mean(xs) ==
    LET present == SelectSeq(xs, LAMBDA x : ~IsNaN(x))
        total   == RSum(present)
    IN  IF \E i \in 1..Len(xs) : IsStr(xs[i]) THEN TypeErr
        ELSE IF present = <<>> THEN NaN
        ELSE Norm(total.n, total.d * Len(present))

---------------------------------------------------------------------------
(* Texts.                                                                  *)

RECURSIVE LStrip(_)
LStrip(s) == IF s # <<>> /\ Head(s) = " " THEN LStrip(Tail(s)) ELSE s

RECURSIVE RStrip(_)
RStrip(s) ==
    IF s # <<>> /\ s[Len(s)] = " " THEN RStrip(SubSeq(s, 1, Len(s) - 1)) ELSE s

Strip(s) == RStrip(LStrip(s))

StartsWithLt(s) == s # <<>> /\ Head(s) = "<"

(* re.search(f"^{pat}$", s) for a pattern of digits, "/" and ".". *)
RegexMatch(pat, s) ==
    /\ Len(pat) = Len(s)
    /\ \A i \in 1..Len(pat) : pat[i] = "." \/ pat[i] = s[i]

---------------------------------------------------------------------------
(* Sequence helpers.                                                       *)

RECURSIVE Flatten(_)
Flatten(ss) == IF ss = <<>> THEN <<>> ELSE Head(ss) \o Flatten(Tail(ss))

Range(xs) == {xs[i] : i \in 1..Len(xs)}

(* The positions of xs that hold an element of S, ascending. *)
Positions(xs, S) == SelectSeq([i \in 1..Len(xs) |-> i], LAMBDA i : xs[i] \in S)

Pick(xs, idx) == [i \in 1..Len(idx) |-> xs[idx[i]]]

(* Index.duplicated(): a later occurrence of an earlier element. *)
IsDuplicated(xs, i) == \E j \in 1..(i - 1) : xs[j] = xs[i]

HasDuplicates(xs) == \E i \in 1..Len(xs) : IsDuplicated(xs, i)

(* Index.unique(): first occurrences, in order. *)
Unique(xs) == Pick(xs, SelectSeq([i \in 1..Len(xs) |-> i],
                                 LAMBDA i : ~IsDuplicated(xs, i)))

(* xs[duplicated].unique() *)
DuplicatedValues(xs) ==
    Unique(Pick(xs, SelectSeq([i \in 1..Len(xs) |-> i],
                              LAMBDA i : IsDuplicated(xs, i))))

---------------------------------------------------------------------------
(* clean_data                                                              *)

Ok(f) == [status |-> "ok", frame |-> f]

NoFrame == [param |-> <<>>, dates |-> <<>>, vals |-> <<>>]

Raised(e) == [status |-> e, frame |-> NoFrame]

(* lambda of applymap: a text that starts with "<" after strip() becomes 0 *)
Censor(x) == IF IsStr(x) /\ StartsWithLt(Strip(x.s)) THEN Zero ELSE x

(* fillna(0) *)
FillNa(x) == IF IsNaN(x) THEN Zero ELSE x

Scalarize(x) == FillNa(Censor(x))

(* applymap and fillna over the whole table, then the split into the       *)
(* 'Parameter' column and the date columns.                                *)
Restructure(df) ==
    [param |-> [i \in 1..Len(df.param) |-> Scalarize(df.param[i])],
     dates |-> df.dates,
     vals  |-> [i \in 1..Len(df.vals) |->
                  [j \in 1..Len(df.vals[i]) |-> Scalarize(df.vals[i][j])]]]

(* cleaned_df.filter(regex=f"^{date}$").columns, as column positions *)
FilterRegex(f, date) ==
    Positions(f.dates, {l \in Range(f.dates) : RegexMatch(date, l)})

(* The columns cleaned_df[cols] selects: for each label of cols, every     *)
(* column carrying it.                                                     *)
SelectColumns(f, labels) ==
    Flatten([m \in 1..Len(labels) |-> Positions(f.dates, {labels[m]})])

(* cleaned_df[date] = means *)
SetColumn(f, date, means) ==
    IF \E j \in 1..Len(f.dates) : f.dates[j] = date
    THEN [f EXCEPT !.vals = [i \in 1..Len(f.vals) |->
                               [j \in 1..Len(f.dates) |->
                                  IF f.dates[j] = date THEN means[i]
                                  ELSE f.vals[i][j]]]]
    ELSE [f EXCEPT !.dates = Append(f.dates, date),
                   !.vals  = [i \in 1..Len(f.vals) |->
                                Append(f.vals[i], means[i])]]

(* cleaned_df.drop(columns=labels) *)
DropColumns(f, labels) ==
    LET keep == Positions(f.dates, Range(f.dates) \ Range(labels))
    IN  [f EXCEPT !.dates = Pick(f.dates, keep),
                  !.vals  = [i \in 1..Len(f.vals) |-> Pick(f.vals[i], keep)]]

(* The labels the drop of one pass of the date loop removes. *)
DroppedLabels(cols, date) == SelectSeq(cols, LAMBDA c : c # date)

(* One pass of the loop over the duplicated dates. *)
MergeDate(f, date) ==
    LET cols  == Pick(f.dates, FilterRegex(f, date))
        sel   == SelectColumns(f, cols)
        means == [i \in 1..Len(f.vals) |-> Mean(Pick(f.vals[i], sel))]
    IN  IF \E i \in 1..Len(means) : means[i] = TypeErr
        THEN Raised("TypeError")
        ELSE Ok(DropColumns(SetColumn(f, date, means),
                            DroppedLabels(cols, date)))

RECURSIVE DateLoop(_, _)
DateLoop(f, todo) ==
    IF todo = <<>> THEN Ok(f)
    ELSE LET r == MergeDate(f, Head(todo))
         IN  IF r.status # "ok" THEN r ELSE DateLoop(r.frame, Tail(todo))

HandleDuplicateDates(f) == DateLoop(f, DuplicatedValues(f.dates))

(* One pass of the loop over the duplicated parameters. *)
MergeParam(f, param) ==
    LET rows  == Positions(f.param, {param})
        means == [j \in 1..Len(f.dates) |->
                    Mean([r \in 1..Len(rows) |-> f.vals[rows[r]][j]])]
        first == rows[1]
        keep  == SelectSeq([i \in 1..Len(f.param) |-> i],
                           LAMBDA i : i = first \/ f.param[i] # param)
        set   == [f.vals EXCEPT ![first] = means]
    IN  IF \E j \in 1..Len(means) : means[j] = TypeErr
        THEN Raised("TypeError")
        ELSE IF HasDuplicates(f.dates)
        THEN Raised("ValueError")
        ELSE Ok([f EXCEPT !.param = Pick(f.param, keep),
                          !.vals  = Pick(set, keep)])

RECURSIVE ParamLoop(_, _)
ParamLoop(f, todo) ==
    IF todo = <<>> THEN Ok(f)
    ELSE LET r == MergeParam(f, Head(todo))
         IN  IF r.status # "ok" THEN r ELSE ParamLoop(r.frame, Tail(todo))

HandleDuplicateParams(f) == ParamLoop(f, DuplicatedValues(f.param))

clean_data(df) ==
    LET byDate == HandleDuplicateDates(Restructure(df))
    IN  IF byDate.status # "ok" THEN byDate
        ELSE HandleDuplicateParams(byDate.frame)

---------------------------------------------------------------------------
(* time_series_plot                                                        *)

Digit(c) ==
    CASE c = "0" -> 0 [] c = "1" -> 1 [] c = "2" -> 2 [] c = "3" -> 3
      [] c = "4" -> 4 [] c = "5" -> 5 [] c = "6" -> 6 [] c = "7" -> 7
      [] c = "8" -> 8 [] c = "9" -> 9 [] OTHER -> -1

IsDigits(s) == \A i \in 1..Len(s) : Digit(s[i]) >= 0

RECURSIVE ToInt(_)
ToInt(s) ==
    IF s = <<>> THEN 0
    ELSE 10 * ToInt(SubSeq(s, 1, Len(s) - 1)) + Digit(s[Len(s)])

IsLeap(y) == (y % 4 = 0 /\ y % 100 # 0) \/ y % 400 = 0

DaysIn(m, y) ==
    IF m = 2 THEN (IF IsLeap(y) THEN 29 ELSE 28)
    ELSE IF m \in {4, 6, 9, 11} THEN 30 ELSE 31

NaT == 0

(* pd.to_datetime(label, errors='coerce') of a label "mm?dd?yyyy" with "/"  *)
(* or "." between the fields: the calendar date as yyyymmdd, or NaT.       *)
ToDatetime(l) ==
    IF /\ Len(l) = 10
       /\ l[3] \in {"/", "."} /\ l[6] = l[3]
       /\ IsDigits(SubSeq(l, 1, 2)) /\ IsDigits(SubSeq(l, 4, 5))
       /\ IsDigits(SubSeq(l, 7, 10))
    THEN LET m == ToInt(SubSeq(l, 1, 2))
             d == ToInt(SubSeq(l, 4, 5))
             y == ToInt(SubSeq(l, 7, 10))
         IN  IF m \in 1..12 /\ d >= 1 /\ d <= DaysIn(m, y)
             THEN y * 10000 + m * 100 + d
             ELSE NaT
    ELSE NaT

(* data[data['Parameter'].isin(params)] on a table *)
RowsIsIn(f, params) ==
    LET keep == Positions(f.param, params)
    IN  [f EXCEPT !.param = Pick(f.param, keep), !.vals = Pick(f.vals, keep)]

(* data.melt(id_vars='Parameter', ...) with the date column parsed: one    *)
(* record per cell, column by column.                                      *)
Melt(f) ==
    Flatten([j \in 1..Len(f.dates) |->
               [i \in 1..Len(f.param) |->
                  [Parameter |-> f.param[i],
                   Date      |-> ToDatetime(f.dates[j]),
                   Value     |-> f.vals[i][j]]]])

(* A dropna that loses every record of a parameter with one unparsed date. *)
DropNaWholeParameter(recs) ==
    SelectSeq(recs,
              LAMBDA r : ~(\E k \in 1..Len(recs) :
                             /\ recs[k].Parameter = r.Parameter
                             /\ (recs[k].Date = NaT \/ IsNaN(recs[k].Value))))

(* data.dropna(subset=['Sampling Date', 'Value']) *)
DropNaRecords(recs) ==
    SelectSeq(recs, LAMBDA r : r.Date # NaT /\ ~IsNaN(r.Value))

(* the data frame px.line receives *)
time_series_plot(data, selected_params) ==
    SelectSeq(DropNaRecords(Melt(data)),
              LAMBDA r : r.Parameter \in selected_params)

---------------------------------------------------------------------------
(* ratio_plot                                                              *)

RECURSIVE Pow10(_)
Pow10(k) == IF k = 0 THEN 1 ELSE 10 * Pow10(k - 1)

(* float(text) for a text of blanks, digits and "."; anything else (a      *)
(* letter, a "<") raises ValueError.                                       *)
ParseFloat(s) ==
    LET t    == Strip(s)
        dots == Positions(t, {"."})
        dig  == SelectSeq(t, LAMBDA c : c # ".")
    IN  IF dig # <<>> /\ IsDigits(dig) /\ Len(dots) <= 1
        THEN Norm(ToInt(dig),
                  IF dots = <<>> THEN 1 ELSE Pow10(Len(t) - dots[1]))
        ELSE TypeErr

(* astype(float) of one cell *)
AsFloat(x) == IF IsStr(x) THEN ParseFloat(x.s) ELSE x

(* A division that reports 0 where the denominator is 0. *)
RatioValueZeroFilled(a, b) ==
    IF IsNaN(a) THEN NaN
    ELSE IF b.n = 0 THEN Zero
    ELSE Norm(a.n * b.d, a.d * b.n)

(* numerator / denominator.replace(0, np.nan) for one date *)
RatioValue(a, b) ==
    IF IsNaN(a) \/ b.n = 0 THEN NaN
    ELSE Norm(a.n * b.d, a.d * b.n)

NoRatio == [status |-> "none", x |-> <<>>, y |-> <<>>]

(* the x and y px.line receives; numerator and denominator are distinct    *)
(* parameters of the table                                                 *)
ratio_plot(data, num, den) ==
    LET n    == Positions(data.param, {num})[1]
        d    == Positions(data.param, {den})[1]
        \* .dropna(): the dates where both values are present
        keep == SelectSeq([j \in 1..Len(data.dates) |-> j],
                          LAMBDA j : ~IsNaN(data.vals[n][j])
                                     /\ ~IsNaN(data.vals[d][j]))
        a    == [j \in 1..Len(keep) |-> AsFloat(data.vals[n][keep[j]])]
        b    == [j \in 1..Len(keep) |-> AsFloat(data.vals[d][keep[j]])]
    IN  IF \E j \in 1..Len(keep) : a[j] = TypeErr \/ b[j] = TypeErr
        THEN [status |-> "ValueError", x |-> <<>>, y |-> <<>>]
        ELSE [status |-> "ok",
              x |-> Pick(data.dates, keep),
              y |-> [j \in 1..Len(keep) |-> RatioValue(a[j], b[j])]]

---------------------------------------------------------------------------
(* The uploaded sheets.                                                    *)

pH == Str(<<"p", "H">>)

Turbidity == Str(<<"T">>)

CensoredLabel == Str(<<"<", "x">>)

ParamLabels == {pH, Turbidity, NaN, CensoredLabel}

DateDot == <<"0", "1", ".", "0", "1", ".", "2", "0", "2", "2">>

DateSlash == <<"0", "1", "/", "0", "1", "/", "2", "0", "2", "2">>

DateFeb == <<"0", "2", "/", "0", "1", "/", "2", "0", "2", "2">>

DateBad == <<"1", "3", "/", "1", "3", "/", "2", "0", "2", "2">>

CensoredCell == Str(<<" ", "<", "5">>)

NumericText == Str(<<"7", ".", "3">>)

MalformedText == Str(<<"a", "b", "c">>)

OddCells == {NaN, CensoredCell, NumericText, MalformedText}

(* The r x c grid of distinct readings 11, 12, .., 21, 22, ...             *)
Readings(r, c) == [i \in 1..r |-> [j \in 1..c |-> Num(10 * i + j, 1)]]

(* Grids of readings in which at most one cell is blank or a text.         *)
Grids(r, c) ==
    {Readings(r, c)} \cup
    {[Readings(r, c) EXCEPT ![i][j] = x] :
        i \in 1..r, j \in 1..c, x \in OddCells}

Sheet(p, d, g) == [param |-> p, dates |-> d, vals |-> g]

NotRun == [status |-> "none", frame |-> NoFrame]

(* Every sheet of at most maxRows parameters, maxCols date columns and    *)
(* maxCells value cells.                                                   *)
Start(maxRows, maxCols, maxCells, dateLabels) ==
    /\ \E r \in 1..maxRows, c \in 1..maxCols :
          /\ r * c <= maxCells
          /\ \E p \in [1..r -> ParamLabels], d \in [1..c -> dateLabels],
                g \in Grids(r, c) :
                raw = Sheet(p, d, g)
    /\ pc = "loaded"
    /\ cleaned = NotRun
    /\ again = NotRun
    /\ selected = {}
    /\ ts = <<>>
    /\ numerator = NaN
    /\ denominator = NaN
    /\ ratio = NoRatio

Init == Start(MaxRows, MaxCols, MaxCells, {DateDot, DateSlash, DateFeb})

InitViews ==
    Start(MaxViewRows, MaxViewCols, MaxViewRows * MaxViewCols,
          {DateSlash, DateFeb, DateBad})

(* line 172 *)
CleanData ==
    /\ pc = "loaded"
    /\ cleaned' = clean_data(raw)
    /\ pc' = "cleaned"
    /\ UNCHANGED <<raw, again, selected, ts, numerator, denominator, ratio>>

(* clean_data applied to its own result, taken as a sheet *)
CleanAgain ==
    /\ pc = "cleaned"
    /\ cleaned.status = "ok"
    /\ again' = clean_data(cleaned.frame)
    /\ pc' = "again"
    /\ UNCHANGED <<raw, cleaned, selected, ts, numerator, denominator, ratio>>

(* line 180 *)
Parameters == {cleaned.frame.param[i] : i \in 1..Len(cleaned.frame.param)}

(* lines 191-194 *)
TimeSeriesPlot ==
    /\ pc = "cleaned"
    /\ cleaned.status = "ok"
    /\ \E sel \in SUBSET Parameters :
          /\ sel # {}
          /\ selected' = sel
          /\ ts' = time_series_plot(RowsIsIn(cleaned.frame, sel), sel)
    /\ pc' = "ts"
    /\ UNCHANGED <<raw, cleaned, again, numerator, denominator, ratio>>

(* lines 198-201 *)
RatioPlot ==
    /\ pc = "cleaned"
    /\ cleaned.status = "ok"
    /\ \E num \in Parameters, den \in Parameters :
          /\ num # den
          /\ numerator' = num
          /\ denominator' = den
          /\ ratio' = ratio_plot(cleaned.frame, num, den)
    /\ pc' = "ratio"
    /\ UNCHANGED <<raw, cleaned, again, selected, ts>>

Next == CleanData \/ CleanAgain \/ TimeSeriesPlot \/ RatioPlot

Spec == Init /\ [][Next]_vars

SpecViews == InitViews /\ [][Next]_vars

---------------------------------------------------------------------------
(* Vocabulary of the properties.                                           *)

Out == cleaned.frame

Rows(f) == 1..Len(f.param)

Cols(f) == 1..Len(f.dates)

(* A censored reading: optional blanks, then "<". *)
IsCensoredText(x) ==
    /\ IsStr(x)
    /\ \E k \in 1..Len(x.s) :
          x.s[k] = "<" /\ \A h \in 1..(k - 1) : x.s[h] = " "

(* What the normaliser is specified to make of a well-formed cell. *)
SpecifiedNumber(x) ==
    IF IsNaN(x) \/ IsCensoredText(x) THEN Zero
    ELSE IF x = NumericText THEN Num(73, 10)
    ELSE x

AllNumbers(f) == \A i \in Rows(f) : \A j \in Cols(f) : IsNum(f.vals[i][j])

NoMalformedCell(f) ==
    \A i \in Rows(f) : \A j \in Cols(f) : f.vals[i][j] # MalformedText

(* Ordinary, pairwise different parameter names. *)
PlainDistinctParams(f) ==
    /\ \A i \in Rows(f) : f.param[i] \in {pH, Turbidity}
    /\ ~HasDuplicates(f.param)

(* The sheet columns headed exactly by label, ascending. *)
ColumnsLabelled(f, label) == Positions(f.dates, {label})

(* The sheet rows whose parameter is exactly param, ascending. *)
RowsLabelled(f, param) == Positions(f.param, {param})

(* C1: when a date label heads several columns, the output has that label  *)
(* once, at its first position, holding the per-row mean of the group.     *)
C1_DuplicateDatesCollapse ==
    (pc = "cleaned" /\ AllNumbers(raw) /\ PlainDistinctParams(raw)
       /\ HasDuplicates(raw.dates))
    => /\ cleaned.status = "ok"
       /\ Out.dates = Unique(raw.dates)
       /\ \A i \in Rows(Out) : \A j \in Cols(Out) :
             Out.vals[i][j] =
                 Mean(Pick(raw.vals[i], ColumnsLabelled(raw, Out.dates[j])))

(* C2: when a parameter label is on several rows, the output has one row   *)
(* for it, in first-occurrence order, holding the per-column mean of the   *)
(* group.                                                                  *)
C2_DuplicateParamsCollapse ==
    (pc = "cleaned" /\ NoMalformedCell(raw) /\ HasDuplicates(raw.param)
       /\ \A i \in Rows(raw) : raw.param[i] \in {pH, Turbidity})
    => /\ cleaned.status = "ok"
       /\ Out.param = Unique(raw.param)
       /\ ~HasDuplicates(raw.dates) =>
             \A i \in Rows(Out) : \A j \in Cols(Out) :
                Out.vals[i][j] =
                    Mean([r \in 1..Len(RowsLabelled(raw, Out.param[i])) |->
                            SpecifiedNumber(
                              raw.vals[RowsLabelled(raw, Out.param[i])[r]][j])])

(* C3: every value cell of the output is a number: 0 for a blank or a      *)
(* censored cell, the number denoted for a numeric text.                   *)
C3_EveryCellIsANumber ==
    (pc = "cleaned" /\ NoMalformedCell(raw) /\ PlainDistinctParams(raw)
       /\ ~HasDuplicates(raw.dates))
    => /\ cleaned.status = "ok"
       /\ \A i \in Rows(Out) : \A j \in Cols(Out) :
             /\ IsNum(Out.vals[i][j])
             /\ Out.vals[i][j] = SpecifiedNumber(raw.vals[i][j])

(* C4: a column whose label occurs once is never merged into the group of  *)
(* another label and never removed: it is in the output with its values.   *)
C4_ExactLabelGrouping ==
    (pc = "cleaned" /\ AllNumbers(raw) /\ PlainDistinctParams(raw))
    => /\ cleaned.status = "ok"
       /\ \A j \in Cols(raw) :
             Len(ColumnsLabelled(raw, raw.dates[j])) = 1 =>
                \E k \in Cols(Out) :
                   /\ Out.dates[k] = raw.dates[j]
                   /\ \A i \in Rows(raw) : Out.vals[i][k] = raw.vals[i][j]

(* C5: cleaning the cleaned table again returns the same table.            *)
C5_Idempotent == pc = "again" => again = cleaned

(* C7: the records of each parameter reach the renderer in ascending       *)
(* order of the parsed date.                                               *)
C7_TimeSeriesSortedByDate ==
    pc = "ts" =>
       \A a \in 1..Len(ts) : \A b \in a..Len(ts) :
          ts[a].Parameter = ts[b].Parameter => ts[a].Date <= ts[b].Date

(* C9: a sheet with a malformed cell yields an error and no table.         *)
C9_MalformedCellRejected ==
    (pc = "cleaned" /\ ~NoMalformedCell(raw)) => cleaned.status # "ok"

(* C10: the rows whose parameter label is blank or censored carry the      *)
(* label 0 in the output and are merged into one row; every other label is *)
(* carried over unchanged.                                                 *)
SpecifiedLabel(p) == IF IsNaN(p) \/ IsCensoredText(p) THEN Zero ELSE p

C10_LabelsScalarized ==
    (pc = "cleaned" /\ NoMalformedCell(raw)
       /\ \E a \in Rows(raw) : \E b \in Rows(raw) :
             a # b /\ SpecifiedLabel(raw.param[a]) = Zero
                   /\ SpecifiedLabel(raw.param[b]) = Zero)
    => /\ cleaned.status = "ok"
       /\ Cardinality({i \in Rows(Out) : Out.param[i] = Zero}) = 1
       /\ {Out.param[i] : i \in Rows(Out)}
             = {SpecifiedLabel(raw.param[i]) : i \in Rows(raw)}

---------------------------------------------------------------------------
(* The ratio view.                                                         *)

RowOf(p) == CHOOSE i \in Rows(Out) : Out.param[i] = p

NumeratorAt(j) == Out.vals[RowOf(numerator)][j]

DenominatorAt(j) == Out.vals[RowOf(denominator)][j]

(* The two chosen rows are rows of a canonical table: numbers only. *)
ChosenRowsNumeric ==
    \A j \in Cols(Out) : IsNum(NumeratorAt(j)) /\ IsNum(DenominatorAt(j))

---------------------------------------------------------------------------
(* The time-series view.                                                   *)

(* The cells the view is specified to emit: a selected parameter under a   *)
(* date label that is a calendar date.                                     *)
Emitted ==
    {<<i, j>> \in Rows(Out) \X Cols(Out) :
        /\ Out.param[i] \in selected
        /\ ToDatetime(Out.dates[j]) # NaT
        /\ ~IsNaN(Out.vals[i][j])}

(* C8: a date label that is no calendar date costs exactly the records of  *)
(* that label: the view is built all the same, holds no record of such a   *)
(* label, and holds the record of every selected parameter under every     *)
(* label that parses.                                                      *)
C8_BadDateDropsOnlyItsRecords ==
    pc = "ts" =>
       /\ \A k \in 1..Len(ts) :
             ts[k].Date # NaT /\ ts[k].Parameter \in selected
       /\ \A c \in Emitted :
             \E k \in 1..Len(ts) :
                ts[k] = [Parameter |-> Out.param[c[1]],
                         Date      |-> ToDatetime(Out.dates[c[2]]),
                         Value     |-> Out.vals[c[1]][c[2]]]
       /\ Len(ts) = Cardinality(Emitted)

C8_Witness ==
    /\ pc = "ts"
    /\ \E j \in Cols(Out) : Out.dates[j] = DateBad
    /\ \E j \in Cols(Out) : Out.dates[j] = DateFeb
    /\ Len(ts) = Cardinality(selected)
    /\ \A k \in 1..Len(ts) : ts[k].Date = 20220201

====
